---- MODULE Spec2Model ----
(***************************************************************************)
(* Model of LLMFactory (src/src/llm-factory.ts): the model router          *)
(* (getProviderForModel, isModelAvailable) and the fallback-and-retry      *)
(* orchestration of its four generation modes, together with the outward   *)
(* behaviour of the provider adapters it drives (providers/base.ts,        *)
(* providers/openai.ts, providers/google.ts, providers/anthropic.ts) and   *)
(* the cost calculator (calculateCost).                                    *)
(*                                                                         *)
(* One behaviour of Spec is one request on one factory.  A step is one     *)
(* run-to-completion segment of JavaScript: the synchronous code from one  *)
(* suspension point (await, event, callback) to the next.  RouterSpec      *)
(* adds isModelAvailable queries to a generate request, PairSpec runs two  *)
(* callback-mode requests on one factory, CostSpec runs calculateCost,     *)
(* CancelSpec lets the consumer of a stream-mode request cancel,           *)
(* RequestSpec varies the content of the request, and BridgeSpec runs one  *)
(* iterator of the Anthropic adapter's event-to-iterator bridge.           *)
(*                                                                         *)
(* Token counts are in thousands of tokens and prices in thousandths of a  *)
(* dollar per million tokens, so a cost is an integer number of            *)
(* millionths of a dollar.                                                 *)
(***************************************************************************)
EXTENDS Integers, Sequences, FiniteSets, TLC

\* ------------------------------------------------------------------ bounds
MaxModels == 3
MaxRetries == 2
MaxChunks == 2
MaxBroken == 1
MaxAttempts == 4
MaxProbes == 2
MaxPairAttempts == 2
MaxTexts == 3
MaxNexts == 5

\* ------------------------------------------------------- static tables
ProviderNames == {"openai", "google", "anthropic"}

KnownModels ==
  {"gpt-4.1", "gpt-4.1-mini", "gpt-4.1-nano", "gpt-4o", "gpt-4o-mini",
   "gpt-4o-audio-preview", "gpt-4o-mini-audio-preview",
   "gemini-2.5-pro-preview-03-25", "gemini-2.0-flash", "gemini-2.0-flash-lite",
   "claude-3-7-sonnet-latest", "claude-3-5-haiku-latest"}

MODEL_PROVIDER_MAP ==
  [m \in KnownModels |->
     CASE m \in {"gpt-4.1", "gpt-4.1-mini", "gpt-4.1-nano", "gpt-4o", "gpt-4o-mini",
                 "gpt-4o-audio-preview", "gpt-4o-mini-audio-preview"} -> "openai"
       [] m \in {"gemini-2.5-pro-preview-03-25", "gemini-2.0-flash",
                 "gemini-2.0-flash-lite"} -> "google"
       [] OTHER -> "anthropic"]

\* Prices in thousandths of a dollar per million tokens.  A flat entry has
\* tiered = FALSE and uses inBelow/outBelow as its two rates.
Flat(i, o) ==
  [tiered |-> FALSE, inThreshold |-> 0, inBelow |-> i, inAbove |-> i,
   outThreshold |-> 0, outBelow |-> o, outAbove |-> o]

MODEL_PRICING ==
  [m \in KnownModels |->
     CASE m = "gpt-4.1" -> Flat(2000, 8000)
       [] m = "gpt-4.1-mini" -> Flat(400, 1600)
       [] m = "gpt-4.1-nano" -> Flat(100, 400)
       [] m = "gpt-4o" -> Flat(2500, 10000)
       [] m = "gpt-4o-mini" -> Flat(150, 600)
       [] m = "gpt-4o-audio-preview" -> Flat(2500, 10000)
       [] m = "gpt-4o-mini-audio-preview" -> Flat(150, 600)
       [] m = "gemini-2.5-pro-preview-03-25" ->
            [tiered |-> TRUE, inThreshold |-> 200, inBelow |-> 1250, inAbove |-> 2500,
             outThreshold |-> 200, outBelow |-> 10000, outAbove |-> 15000]
       [] m = "gemini-2.0-flash" -> Flat(100, 400)
       [] m = "gemini-2.0-flash-lite" -> Flat(75, 300)
       [] m = "claude-3-7-sonnet-latest" -> Flat(3000, 15000)
       [] OTHER -> Flat(800, 4000)]

TierCliff(tokens, threshold, below, above) ==
  IF tokens <= threshold THEN tokens * below ELSE tokens * above

TierExcessOnly(tokens, threshold, below, above) ==
  IF tokens <= threshold THEN tokens * below ELSE (tokens - threshold) * above

\* One side (input or output) of calculateCost: tokens in thousands.
TierCost(tokens, threshold, below, above) ==
  IF tokens <= threshold
    THEN tokens * below
    ELSE threshold * below + (tokens - threshold) * above

calculateCost(model, inputTokens, outputTokens) ==
  LET pricing == MODEL_PRICING[model] IN
  IF pricing.tiered
    THEN TierCost(inputTokens, pricing.inThreshold, pricing.inBelow, pricing.inAbove)
         + TierCost(outputTokens, pricing.outThreshold, pricing.outBelow, pricing.outAbove)
    ELSE inputTokens * pricing.inBelow + outputTokens * pricing.outBelow

\* BaseLLMProvider.getModelName: params.model || DEFAULT_MODEL
DEFAULT_MODEL(provider) ==
  CASE provider = "openai" -> "gpt-4o-mini"
    [] provider = "google" -> "gemini-2.0-flash"
    [] OTHER -> "claude-3-5-haiku-latest"

getModelName(provider, model) == IF model = "" THEN DEFAULT_MODEL(provider) ELSE model

createTokenMetadata(modelName, inputTokens, outputTokens) ==
  [model |-> modelName, inputTokens |-> inputTokens, outputTokens |-> outputTokens,
   cost |-> calculateCost(modelName, inputTokens, outputTokens)]

\* ------------------------------------------------------------- the state
VARIABLES
  providers,          \* LLMFactory.providers: the provider names the Map holds
  clients,            \* the providers whose adapter holds a vendor client (client !== null)
  mode,               \* which of the four generation methods the request is
  models,             \* params.model as an array (a single id is a one-element array)
  retries,            \* params.retries: <<>> when omitted, <<n>> when given
  currentModelIndex,  \* index into models, from 0 (generate: position of the for-of loop)
  currentAttempt,     \* attempts already failed on the current model (generate: attempt)
  lastError,          \* message of the last error caught; <<>> is null
  pc,                 \* "start", "running" or "settled"
  att,                \* one record per adapter invocation, in invocation order
  warns,              \* every console.warn of a failed attempt, in order
  emitted,            \* chunks relayed to the caller (written, enqueued or passed to onChunk)
  chan,               \* state of the output stream of the two stream modes
  response,           \* what the caller was handed: results, onComplete/onError calls
  processing,         \* processingPromise of the two stream modes
  chunksLeft,         \* chunks the vendors may still produce during this request
  reader,             \* the consumer of the output stream: chunks read, how reading ended
  available,          \* isModelAvailable calls made, in order: [model, result, threw, settled]
  quote,              \* calculateCost calls made: [model, inputTokens, outputTokens, threw, cost]
  peer,               \* a second generateWithCallbacks request on the same factory
  bridge,             \* one iterator of the Anthropic adapter's event-to-iterator bridge
  params              \* the caller's params object, its fields other than model and retries

vars == <<providers, clients, mode, models, retries, currentModelIndex, currentAttempt,
          lastError, pc, att, warns, emitted, chan, response, processing, chunksLeft,
          reader, available, quote, peer, bridge, params>>

Modes == {"generate", "generateStream", "generateWithCallbacks", "generateReadableStream"}

\* The model ids requests are drawn from: one per provider and one that the
\* routing table does not hold.
CandidatePool == {"gpt-4o", "gemini-2.0-flash", "claude-3-5-haiku-latest", "no-such-model"}

CandidateLists ==
  {s \in UNION {[1..n -> CandidatePool] : n \in 1..MaxModels} :
     \A a, b \in DOMAIN s : s[a] = s[b] => a = b}

\* Usage a vendor may report for a successful attempt, in thousands of tokens.
UsageChoices == {<<1, 2>>, <<0, 0>>}

DefaultRetries == 3

\* const maxRetries = params.retries ?? 3
maxRetries == IF retries = <<>> THEN DefaultRetries ELSE retries[1]

\* ------------------------------------------------------------ the router
\* An error is its message, a sequence of the pieces the code concatenates.
UnknownError == <<"Unknown error">>

\* lastError?.message || 'Unknown error'
MessageOr(error) == IF error = <<>> THEN UnknownError ELSE error

AllModelsFailedUnknown(error) == <<"All models failed after retries">> \o UnknownError
AllModelsFailed(error) == <<"All models failed after retries">> \o MessageOr(error)

\* Property names every object inherits: MODEL_PROVIDER_MAP is an object literal,
\* and MODEL_PROVIDER_MAP["constructor"] is the function Object.
Inherited == {"constructor"}

Undefined == "undefined"

\* MODEL_PROVIDER_MAP[model as keyof typeof MODEL_PROVIDER_MAP]
Lookup(model) ==
  IF model \in DOMAIN MODEL_PROVIDER_MAP THEN MODEL_PROVIDER_MAP[model]
  ELSE IF model \in Inherited THEN "function Object"
  ELSE Undefined

\* if (!providerName) does not throw
Routed(model) == Lookup(model) # Undefined

ProviderOf(model) == Lookup(model)

\* getProviderForModel returns a provider (does not throw)
Resolves(model) == Routed(model) /\ ProviderOf(model) \in providers

\* the error getProviderForModel throws when it does not return
ResolveError(model) ==
  IF ~Routed(model)
    THEN <<"Unsupported model", model>>
    ELSE <<"Provider not initialized", ProviderOf(model)>>

\* Boolean(providerName && this.providers.get(providerName))
isModelAvailableRouted(model) == Lookup(model) # Undefined
isModelAvailable(model) == Lookup(model) # Undefined /\ Lookup(model) \in providers

\* this.providers after an attempt on a provider failed: the constructor is the only
\* writer of the Map, a failing provider stays in it.
ForgetProvider(map, provider) == map \ {provider}
KeepProvider(map, provider) == map

\* ------------------------------------------------------ the caller's request
\* BaseGenerateParams without model: prompt and the optional outputSchema,
\* temperature, maxTokens, image and audio; <<>> is an omitted field.
TextRequest ==
  [prompt |-> "p1", outputSchema |-> <<>>, temperature |-> <<>>, maxTokens |-> <<>>,
   image |-> <<>>, audio |-> <<>>]

RichRequest ==
  [prompt |-> "p2", outputSchema |-> <<"schema">>, temperature |-> <<7>>,
   maxTokens |-> <<100>>, image |-> <<"img1", "img2">>, audio |-> <<"mp3">>]

CallerRequests == {TextRequest, RichRequest}

\* ------------------------------------------------------------------ Init
\* After construction: initializeProviders puts a provider in the Map unless its
\* constructor threw; a provider's initClient leaves client null when the vendor
\* SDK's constructor threw.  At most MaxBroken providers are not fully set up, each
\* of them the provider of a candidate of the request (the others are never looked
\* at), and the request has room for at most MaxAttempts attempts.
InitWith(requests) ==
  /\ providers \in SUBSET ProviderNames
  /\ clients \in SUBSET providers
  /\ Cardinality(ProviderNames \ clients) <= MaxBroken
  /\ mode \in Modes
  /\ models \in CandidateLists
  /\ retries \in {<<>>} \cup {<<n>> : n \in 0..MaxRetries}
  /\ Len(models) * maxRetries <= MaxAttempts
  /\ \A p \in ProviderNames \ clients :
       \E k \in DOMAIN models : Routed(models[k]) /\ ProviderOf(models[k]) = p
  /\ currentModelIndex = 0
  /\ currentAttempt = 0
  /\ lastError = <<>>
  /\ pc = "start"
  /\ att = <<>>
  /\ warns = <<>>
  /\ emitted = <<>>
  /\ chan = [state |-> "open", error |-> <<>>, seen |-> 0]
  /\ response = <<>>
  /\ processing = [state |-> "pending", model |-> "", error |-> <<>>]
  /\ quote = <<>>
  /\ peer = [started |-> FALSE, i |-> 0, a |-> 0, e |-> <<>>, att |-> <<>>,
             warns |-> <<>>, response |-> <<>>]
  /\ chunksLeft = MaxChunks
  /\ reader = [n |-> 0, end |-> "none", error |-> <<>>, att |-> 0]
  /\ available = <<>>
  /\ bridge = [textQueue |-> <<>>, resolveNext |-> FALSE, rejectNext |-> FALSE,
               streamEnded |-> FALSE, streamError |-> <<>>, waiting |-> FALSE,
               texts |-> <<>>, results |-> <<>>]
  /\ params \in requests

\* The states after construction, the request being the plain text request.
Init == InitWith({TextRequest})

\* --------------------------------------------------- the provider adapters
VendorError(call) == <<"vendor error", ToString(call)>>

\* checkClientInitialized: "<Provider> client not initialized - API key may be missing"
ClientError(provider) == <<provider, "client not initialized - API key may be missing">>

formatErrorMessage(error, prefix) == <<prefix>> \o error

\* What a failing adapter call of this invocation fails with.
InnerError(provider, call) ==
  IF provider \in clients THEN VendorError(call) ELSE ClientError(provider)

\* BaseLLMProvider.generate wraps every error
GenerateError(provider, call) ==
  formatErrorMessage(InnerError(provider, call), "Generation API error")

\* Errors of an adapter's chunk stream: the generator of BaseLLMProvider.generateStream
\* wraps them; the overrides of OpenAIProvider and AnthropicProvider do not.
StreamingError(provider, call) ==
  IF provider = "google" /\ provider \in clients
    THEN formatErrorMessage(VendorError(call), "Streaming API error")
    ELSE InnerError(provider, call)

\* provider.generateStream(...) throws synchronously: checkClientInitialized is its
\* first statement in BaseLLMProvider and AnthropicProvider, OpenAIProvider's
\* override does not call it.
SyncThrows(provider) == provider \in {"google", "anthropic"} /\ provider \notin clients

\* A vendor error in the middle of the response stream makes the adapter's chunk
\* sequence reject (OpenAIProvider.createTextStream logs it and ends normally).
MidStreamErrorSurfaces(provider) == provider # "openai"

\* ------------------------------------------------ the orchestrator's steps
\* One adapter invocation; from is the number of chunks relayed before it began.
\* The params object of the call as the caller built it: params.model is the
\* candidate list, the three callbacks exist in callback mode only.
CallerParams ==
  [model |-> models, retries |-> retries, prompt |-> params.prompt,
   outputSchema |-> params.outputSchema, temperature |-> params.temperature,
   maxTokens |-> params.maxTokens, image |-> params.image, audio |-> params.audio,
   onChunk |-> IF mode = "generateWithCallbacks" THEN <<"caller">> ELSE <<>>,
   onComplete |-> IF mode = "generateWithCallbacks" THEN <<"caller">> ELSE <<>>,
   onError |-> IF mode = "generateWithCallbacks" THEN <<"caller">> ELSE <<>>]

\* { ...params, model }: a copy of every field with model replaced, and the
\* mutant that leaves the attachments behind.
SpreadWithoutAttachments(p, model) ==
  [p EXCEPT !.model = model, !.image = <<>>, !.audio = <<>>]

Spread(p, model) == [p EXCEPT !.model = model]

\* The object handed to the adapter: generateWithCallbacks also replaces the
\* three callbacks by its own, which relay to the caller's.
AdapterRequest(model) ==
  IF mode = "generateWithCallbacks"
    THEN [Spread(CallerParams, model) EXCEPT !.onChunk = <<"orchestrator">>,
                                             !.onComplete = <<"orchestrator">>,
                                             !.onError = <<"orchestrator">>]
  ELSE Spread(CallerParams, model)

Attempt(i, a, model) ==
  [i |-> i, model |-> model, provider |-> ProviderOf(model), n |-> a + 1,
   sent |-> 0, st |-> "run", error |-> <<>>, from |-> Len(emitted),
   request |-> AdapterRequest(model)]

\* console.warn(`... failed with model ${model}, attempt ${attempt + 1}/${maxRetries}:`, error)
\* call is the adapter invocation that failed, 0 when no adapter was invoked.
Warning(label, model, attempt, error, call) ==
  [label |-> label, model |-> model, attempt |-> attempt + 1, of |-> maxRetries,
   error |-> error, call |-> call]

\* lastError = error as Error
CatchFirst(previous, error) == IF previous = <<>> THEN error ELSE previous
Catch(previous, error) == error

\* result.metadata.model = model
SetModelOriginal(metadata, model) == [metadata EXCEPT !.model = models[1]]
SetModel(metadata, model) == [metadata EXCEPT !.model = model]

\* generate: where the two nested loops stand when control reaches the head of the
\* inner loop with loop variables (i, a); a = 0 means the model's provider is still
\* to be looked up.
GenHeadCaught(i, a) ==
  IF i >= Len(models) THEN "exhausted"
  ELSE IF a = 0 /\ ~Resolves(models[i + 1]) THEN "advance"
  ELSE IF a < maxRetries THEN "call"
  ELSE "advance"
GenHead(i, a) ==
  IF i >= Len(models) THEN "exhausted"
  ELSE IF a = 0 /\ ~Resolves(models[i + 1]) THEN "throw"
  ELSE IF a < maxRetries THEN "call"
  ELSE "advance"

RECURSIVE GenNext(_, _)
GenNext(i, a) ==
  IF GenHead(i, a) = "advance"
    THEN GenNext(i + 1, 0)
    ELSE [k |-> GenHead(i, a), i |-> i, a |-> a]

\* No metadata: the field of a delivery that carries none.
NoMetadata == [model |-> "", inputTokens |-> 0, outputTokens |-> 0, cost |-> 0]

\* A rejection handed to the caller.  call and seen are bookkeeping of the model:
\* the adapter invocation a delivery stems from (0: none) and the number of
\* warnings logged when it was made.
Rejected(error, seen) ==
  [kind |-> "rejected", text |-> <<>>, metadata |-> NoMetadata, error |-> error,
   call |-> 0, seen |-> seen]

\* generate from the head of the inner loop, with loop variables (i, a), last error e,
\* invocations so far at and warnings so far w, up to its next suspension or its end.
GenGoto(i, a, e, at, w) ==
  LET nxt == GenNext(i, a) IN
  /\ warns' = w
  /\ currentModelIndex' = nxt.i
  /\ currentAttempt' = nxt.a
  /\ lastError' = e
  /\ CASE nxt.k = "call" ->
            /\ att' = Append(at, Attempt(nxt.i, nxt.a, models[nxt.i + 1]))
            /\ pc' = "running"
            /\ response' = response
       [] nxt.k = "throw" ->
            /\ att' = at
            /\ pc' = "settled"
            /\ response' = Append(response, Rejected(ResolveError(models[nxt.i + 1]),
                                                     Len(w)))
       [] OTHER ->
            /\ att' = at
            /\ pc' = "settled"
            /\ response' = Append(response, Rejected(AllModelsFailed(e), Len(w)))

GenerateStart ==
  /\ mode = "generate"
  /\ pc = "start"
  /\ GenGoto(0, 0, lastError, att, warns)
  /\ UNCHANGED <<params, bridge, peer, quote, reader, available, providers, clients, mode, models,
                 retries, emitted, chan, processing, chunksLeft>>

\* await provider.generate(...) resolves
GenerateResolved ==
  /\ mode = "generate"
  /\ pc = "running"
  /\ LET call == Len(att)
         at == att[call] IN
     /\ at.provider \in clients
     /\ \E u \in UsageChoices :
          response' = Append(response,
            [kind |-> "resolved", text |-> <<<<call, 0>>>>,
             metadata |-> SetModel(createTokenMetadata(getModelName(at.provider, at.model),
                                                       u[1], u[2]), at.model),
             error |-> <<>>, call |-> call, seen |-> Len(warns)])
     /\ att' = [att EXCEPT ![call].st = "ok"]
  /\ pc' = "settled"
  /\ UNCHANGED <<params, bridge, peer, quote, reader, available, providers, clients, mode, models,
                 retries, currentModelIndex, currentAttempt, lastError, warns, emitted,
                 chan, processing, chunksLeft>>

\* await provider.generate(...) rejects: the catch block, then on with the loops
GenerateRejected ==
  /\ mode = "generate"
  /\ pc = "running"
  /\ providers' = KeepProvider(providers, att[Len(att)].provider)
  /\ LET call == Len(att)
         at == att[call]
         error == GenerateError(at.provider, call) IN
     /\ GenGoto(currentModelIndex, currentAttempt + 1, Catch(lastError, error),
                [att EXCEPT ![call].st = "failed", ![call].error = error],
                Append(warns, Warning("Generation failed", at.model, currentAttempt,
                                      error, call)))
  /\ UNCHANGED <<params, bridge, peer, quote, reader, available, clients, mode, models, retries,
                 emitted, chan, processing, chunksLeft>>

\* writer.write(chunk) / controller.enqueue(value) / onChunk(chunk): the chunk goes
\* out behind those relayed before it
RelayAhead(out, chunk) == <<chunk>> \o out
Relay(out, chunk) == Append(out, chunk)

\* The catch block leaves what the failed attempt has relayed where it is.
DropRelayed(out, call) ==
  LET Other(chunk) == chunk[1] # call IN SelectSeq(out, Other)
KeepRelayed(out, call) == out

\* ---------------------------------------------- the three streaming modes
\* The mutable variables a request's closures share, as one record.
Sess ==
  [i |-> currentModelIndex, a |-> currentAttempt, e |-> lastError, att |-> att,
   warns |-> warns]

Apply(s) ==
  /\ currentModelIndex' = s.i
  /\ currentAttempt' = s.a
  /\ lastError' = s.e
  /\ att' = s.att
  /\ warns' = s.warns

FailLabel ==
  CASE mode = "generateStream" -> "Streaming failed"
    [] mode = "generateReadableStream" -> "ReadableStream generation failed"
    [] OTHER -> "Callback generation failed"

\* generateWithCallbacks reports what its own try block catches as "Setup failed"
SetupLabel == IF mode = "generateWithCallbacks" THEN "Setup failed" ELSE FailLabel

\* currentAttempt++; if (currentAttempt >= maxRetries) { currentModelIndex++; currentAttempt = 0 }
RetryOnceMore(i, a) ==
  IF a + 1 > maxRetries THEN [i |-> i + 1, a |-> 0] ELSE [i |-> i, a |-> a + 1]
Retry(i, a) ==
  IF a + 1 >= maxRetries THEN [i |-> i + 1, a |-> 0] ELSE [i |-> i, a |-> a + 1]

\* The catch block (the onError handler in callback mode) up to the point where it
\* loops or calls tryGeneration again.
OnFailure(s, label, model, error, call) ==
  LET r == Retry(s.i, s.a) IN
  [s EXCEPT !.warns = Append(@, Warning(label, model, s.a, error, call)),
            !.e = Catch(s.e, error), !.i = r.i, !.a = r.a]

MarkFailed(s, call, error) ==
  [s EXCEPT !.att[call].st = "failed", !.att[call].error = error]

\* The while loop of generateStream's process, and tryGeneration of the other two
\* modes, from its head to the first suspension: every failure met on the way
\* (getProviderForModel throwing, the adapter throwing or calling onError before it
\* returns) is handled and the loop re-entered.
RECURSIVE Loop(_)
Loop(s) ==
  IF s.i >= Len(models) THEN s
  ELSE
    LET model == models[s.i + 1] IN
    IF ~Resolves(model)
      THEN Loop(OnFailure(s, SetupLabel, model, ResolveError(model), 0))
      ELSE
        LET p == ProviderOf(model)
            call == Len(s.att) + 1
            started == [s EXCEPT !.att = Append(@, Attempt(s.i, s.a, model))] IN
        IF mode = "generateWithCallbacks" /\ p = "anthropic" /\ p \notin clients
          THEN \* the async override rejects its own promise before its try block
               [started EXCEPT !.att[call].st = "hung", !.att[call].error = ClientError(p)]
        ELSE IF SyncThrows(p)
          THEN Loop(OnFailure(MarkFailed(started, call, ClientError(p)), FailLabel, model,
                              ClientError(p), call))
        ELSE started

Exhausted(s) == s.i >= Len(models)

StreamModes == {"generateStream", "generateReadableStream"}

\* The output stream when no model is left: writer.abort(new Error(errorMessage)),
\* controller.error(new Error(errorMessage))
Closes(s) == [state |-> "closed", error |-> <<>>, seen |-> Len(s.warns)]
Errors(s) == [state |-> "errored", error |-> AllModelsFailed(s.e), seen |-> Len(s.warns)]

\* processingPromise when no model is left: process throws the aggregate error,
\* async tryGeneration returns null
SettlesWithLast(s) ==
  [state |-> "fulfilled", model |-> models[Len(models)], error |-> <<>>]
SettlesFailed(s) ==
  IF mode = "generateStream"
    THEN [state |-> "rejected", model |-> "", error |-> AllModelsFailed(s.e)]
    ELSE [state |-> "null", model |-> "", error |-> <<>>]

\* What the two stream modes do once Loop has come to rest.  On a stream the
\* consumer has cancelled, writer.abort and controller.error change nothing.
StreamRest(s) ==
  /\ Apply(s)
  /\ IF Exhausted(s)
       THEN /\ chan' = IF chan.state = "cancelled" THEN chan ELSE Errors(s)
            /\ processing' = SettlesFailed(s)
            /\ pc' = "settled"
       ELSE /\ UNCHANGED <<chan, processing>>
            /\ pc' = "running"

StreamStart ==
  /\ mode \in StreamModes
  /\ pc = "start"
  /\ StreamRest(Loop(Sess))
  /\ UNCHANGED <<params, bridge, peer, quote, reader, available, providers, clients, mode, models,
                 retries, emitted, response, chunksLeft>>

\* the adapter's stream yields a chunk: writer.write(chunk) / controller.enqueue(value)
StreamChunk ==
  /\ mode \in StreamModes
  /\ pc = "running"
  /\ chan.state = "open"
  /\ chunksLeft > 0
  /\ LET call == Len(att) IN
     /\ att[call].provider \in clients
     /\ emitted' = Relay(emitted, <<call, att[call].sent + 1>>)
     /\ att' = [att EXCEPT ![call].sent = @ + 1]
  /\ chunksLeft' = chunksLeft - 1
  /\ UNCHANGED <<params, bridge, peer, quote, reader, available, providers, clients, mode, models,
                 retries, currentModelIndex, currentAttempt, lastError, pc, warns, chan,
                 response, processing>>

\* return { model, getMetadata } right after writer.close() / controller.close():
\* the loop is left, nothing of the request runs on
GoOnAfterClose(at) == at
ReturnAfterClose(at) == "settled"

\* the adapter's stream ends: writer.close() / controller.close(); return { model, getMetadata }
StreamEnd ==
  /\ mode \in StreamModes
  /\ pc = "running"
  /\ chan.state = "open"
  /\ LET call == Len(att) IN
     /\ att[call].provider \in clients
     /\ att' = [att EXCEPT ![call].st = "ok"]
     /\ processing' = [state |-> "fulfilled", model |-> att[call].model, error |-> <<>>]
  /\ chan' = [chan EXCEPT !.state = "closed"]
  /\ pc' = ReturnAfterClose(pc)
  /\ UNCHANGED <<params, bridge, peer, quote, reader, available, providers, clients, mode, models,
                 retries, currentModelIndex, currentAttempt, lastError, warns, emitted,
                 response, chunksLeft>>

\* the adapter's stream rejects: the catch block, then the loop again
StreamError ==
  /\ mode \in StreamModes
  /\ pc = "running"
  /\ LET call == Len(att)
         at == att[call]
         error == StreamingError(at.provider, call) IN
     /\ at.sent = 0 \/ MidStreamErrorSurfaces(at.provider)
     /\ emitted' = KeepRelayed(emitted, call)
     /\ StreamRest(Loop(OnFailure(MarkFailed(Sess, call, error), FailLabel, at.model,
                                  error, call)))
  /\ UNCHANGED <<params, bridge, peer, quote, reader, available, providers, clients, mode, models,
                 retries, response, chunksLeft>>

\* A vendor error during the iteration of the response stream that the adapter
\* turns into a normal end of its chunk sequence: OpenAIProvider.createTextStream
\* catches it, logs it and returns; AnthropicProvider's bridge answers done when
\* the error came while no next() was pending (the consumer was handling a
\* chunk) and the vendor's "end" event followed.
SwallowsVendorError(at) ==
  \/ at.provider = "openai"
  \/ at.provider = "anthropic" /\ at.sent >= 1

\* the vendor's stream fails and the adapter's stream ends normally: the
\* orchestrator closes the output stream and returns, as in StreamEnd; the
\* attempt keeps the vendor's error in its error field
StreamErrorSwallowed ==
  /\ mode \in StreamModes
  /\ pc = "running"
  /\ chan.state = "open"
  /\ LET call == Len(att) IN
     /\ att[call].provider \in clients
     /\ SwallowsVendorError(att[call])
     /\ att' = [att EXCEPT ![call].st = "ok", ![call].error = VendorError(call)]
     /\ processing' = [state |-> "fulfilled", model |-> att[call].model, error |-> <<>>]
  /\ chan' = [chan EXCEPT !.state = "closed"]
  /\ pc' = ReturnAfterClose(pc)
  /\ UNCHANGED <<params, bridge, peer, quote, reader, available, providers, clients, mode, models,
                 retries, currentModelIndex, currentAttempt, lastError, warns, emitted,
                 response, chunksLeft>>

\* getMetadata() of the returned object, once processingPromise has settled
GetMetadata ==
  /\ mode \in StreamModes
  /\ pc = "settled"
  /\ response = <<>>
  /\ \/ /\ processing.state = "fulfilled"
        /\ \E u \in UsageChoices :
             response' = <<[kind |-> "metadata", text |-> <<>>,
                            metadata |-> SetModel(createTokenMetadata(
                                           getModelName(ProviderOf(processing.model),
                                                        processing.model), u[1], u[2]),
                                           processing.model),
                            error |-> <<>>, call |-> Len(att), seen |-> Len(warns)]>>
     \/ \* OpenAIProvider's getMetadata makes a request of its own, which may fail
        /\ processing.state = "fulfilled"
        /\ ProviderOf(processing.model) = "openai"
        /\ response' = <<Rejected(<<"Failed to get metadata">> \o VendorError(Len(att)),
                                  Len(warns))>>
     \/ /\ processing.state = "rejected"
        /\ response' = <<Rejected(<<"Failed to get metadata">> \o processing.error,
                                  Len(warns))>>
     \/ /\ processing.state = "null"
        /\ response' = <<Rejected(<<"Failed to get metadata", "Failed to get metadata",
                                    "stream processing ended without success">>,
                                  Len(warns))>>
  /\ UNCHANGED <<params, bridge, peer, quote, reader, available, providers, clients, mode, models,
                 retries, currentModelIndex, currentAttempt, lastError, pc, att, warns,
                 emitted, chan, processing, chunksLeft>>

\* The consumer reads the returned stream: the next chunk relayed and not yet read;
\* the end, once the stream is closed and every chunk has been read; the stream's
\* error once it has errored, which discards what was not yet read.
Read ==
  /\ mode \in StreamModes
  /\ pc # "start"
  /\ reader.end = "none"
  /\ \/ /\ chan.state # "errored"
        /\ reader.n < Len(emitted)
        /\ reader' = [reader EXCEPT !.n = @ + 1]
     \/ /\ chan.state = "closed"
        /\ reader.n = Len(emitted)
        /\ reader' = [reader EXCEPT !.end = "done"]
     \/ /\ chan.state = "errored"
        /\ reader' = [reader EXCEPT !.end = "error", !.error = chan.error]
  /\ UNCHANGED <<params, bridge, peer, quote, available, providers, clients, mode, models, retries,
                 currentModelIndex, currentAttempt, lastError, pc, att, warns, emitted,
                 chan, response, processing, chunksLeft>>

\* ------------------------------------------------- the consumer cancels
\* controller.enqueue and controller.close on a stream that is no longer readable
InvalidState == <<"Invalid state", "Controller is already closed">>

\* The consumer cancels the stream it was handed (reader.cancel(), or leaving a
\* for-await loop early).  A ReadableStream becomes closed, its source has no
\* cancel callback; the readable side of the TransformStream cancelled errors its
\* writable side.
Cancel ==
  /\ mode \in StreamModes
  /\ pc = "running"
  /\ reader.end = "none"
  /\ chan.state = "open"
  /\ reader' = [reader EXCEPT !.end = "cancelled", !.att = Len(att)]
  /\ chan' = [chan EXCEPT !.state = "cancelled"]
  /\ UNCHANGED <<params, bridge, peer, quote, available, providers, clients, mode, models, retries,
                 currentModelIndex, currentAttempt, lastError, pc, att, warns, emitted,
                 response, processing, chunksLeft>>

\* the adapter's stream yields a chunk after the cancellation: writer.write(chunk)
\* returns a rejected promise nobody awaits and the loop goes on;
\* controller.enqueue(value) throws into the catch block
CancelledChunk ==
  /\ mode \in StreamModes
  /\ pc = "running"
  /\ chan.state = "cancelled"
  /\ chunksLeft > 0
  /\ chunksLeft' = chunksLeft - 1
  /\ LET call == Len(att)
         at == att[call]
         produced == [att EXCEPT ![call].sent = @ + 1] IN
     /\ at.provider \in clients
     /\ IF mode = "generateStream"
          THEN /\ att' = produced
               /\ UNCHANGED <<currentModelIndex, currentAttempt, lastError, pc, warns,
                              chan, processing>>
          ELSE StreamRest(Loop(OnFailure(
                 MarkFailed([Sess EXCEPT !.att = produced], call, InvalidState),
                 FailLabel, at.model, InvalidState, call)))
  /\ UNCHANGED <<params, bridge, peer, quote, reader, available, providers, clients, mode, models,
                 retries, emitted, response>>

\* the adapter's stream ends after the cancellation: writer.close() returns a
\* rejected promise nobody awaits and process returns { model, getMetadata };
\* controller.close() throws into the catch block
CancelledEnd ==
  /\ mode \in StreamModes
  /\ pc = "running"
  /\ chan.state = "cancelled"
  /\ LET call == Len(att)
         at == att[call] IN
     /\ at.provider \in clients
     /\ IF mode = "generateStream"
          THEN /\ att' = [att EXCEPT ![call].st = "ok"]
               /\ processing' = [state |-> "fulfilled", model |-> at.model,
                                 error |-> <<>>]
               /\ pc' = "settled"
               /\ UNCHANGED <<currentModelIndex, currentAttempt, lastError, warns, chan>>
          ELSE StreamRest(Loop(OnFailure(MarkFailed(Sess, call, InvalidState), FailLabel,
                                         at.model, InvalidState, call)))
  /\ UNCHANGED <<params, bridge, peer, quote, reader, available, providers, clients, mode, models,
                 retries, emitted, response, chunksLeft>>

\* A stream-mode request whose consumer may cancel.
CancelNext ==
  \/ StreamStart
  \/ StreamChunk
  \/ StreamEnd
  \/ StreamError
  \/ GetMetadata
  \/ Read
  \/ Cancel
  \/ CancelledChunk
  \/ CancelledEnd

CancelInit == Init /\ mode \in StreamModes

CancelSpec == CancelInit /\ [][CancelNext]_vars

\* ------------------------------------------------------- callback mode
\* An attempt the adapter may still call back for.
InFlight(at) == at.st \in {"run", "ending", "errored", "errored-ending"}

\* the text an adapter hands to onComplete: the chunks of its own invocation
TextOf(call, sent) == [k \in 1..sent |-> <<call, k>>]

OnError(error, seen) ==
  [kind |-> "onError", text |-> <<>>, metadata |-> NoMetadata, error |-> error,
   call |-> 0, seen |-> seen]

\* onComplete of the wrapper: response.metadata.model = model; onComplete(response)
OnComplete(call, at, u) ==
  [kind |-> "onComplete", text |-> TextOf(call, at.sent),
   metadata |-> SetModel(createTokenMetadata(getModelName(at.provider, at.model),
                                             u[1], u[2]), at.model),
   error |-> <<>>, call |-> call, seen |-> Len(warns)]

\* tryGeneration at rest: if it found no model left it has called the caller's onError
Delivered(resp, s) ==
  IF Exhausted(s) THEN Append(resp, OnError(AllModelsFailed(s.e), Len(s.warns))) ELSE resp

PcOf(at) == IF \E k \in DOMAIN at : InFlight(at[k]) THEN "running" ELSE "settled"

CallbacksStart ==
  /\ mode = "generateWithCallbacks"
  /\ pc = "start"
  /\ LET s == Loop(Sess) IN
     /\ Apply(s)
     /\ response' = Delivered(response, s)
     /\ pc' = PcOf(s.att)
  /\ UNCHANGED <<params, bridge, peer, quote, reader, available, providers, clients, mode, models,
                 retries, emitted, chan, processing, chunksLeft>>

\* the adapter calls the wrapper's onChunk: accumulator += chunk; onChunk(chunk)
CallbacksChunk ==
  \E call \in DOMAIN att :
    /\ mode = "generateWithCallbacks"
    /\ att[call].st = "run"
    /\ att[call].provider \in clients
    /\ chunksLeft > 0
    /\ emitted' = Relay(emitted, <<call, att[call].sent + 1>>)
    /\ att' = [att EXCEPT ![call].sent = @ + 1]
    /\ chunksLeft' = chunksLeft - 1
    /\ UNCHANGED <<params, bridge, peer, quote, reader, available, providers, clients, mode, models,
                   retries, currentModelIndex, currentAttempt, lastError, pc, warns,
                   chan, response, processing>>

\* BaseLLMProvider.generateWithCallbacks (OpenAI, Google): the stream ended and
\* getMetadata resolved, onComplete(response)
CallbacksComplete ==
  \E call \in DOMAIN att :
    /\ mode = "generateWithCallbacks"
    /\ att[call].st = "run"
    /\ att[call].provider # "anthropic"
    /\ att[call].provider \in clients
    /\ \E u \in UsageChoices : response' = Append(response, OnComplete(call, att[call], u))
    /\ att' = [att EXCEPT ![call].st = "ok"]
    /\ pc' = PcOf(att')
    /\ UNCHANGED <<params, bridge, peer, quote, reader, available, providers, clients, mode, models,
                   retries, currentModelIndex, currentAttempt, lastError, warns,
                   emitted, chan, processing, chunksLeft>>

\* BaseLLMProvider.generateWithCallbacks: its catch block calls onError(error) once;
\* the wrapper's onError handler runs, and tryGeneration again.
CallbacksError ==
  \E call \in DOMAIN att :
    /\ mode = "generateWithCallbacks"
    /\ att[call].st = "run"
    /\ att[call].provider # "anthropic"
    /\ LET at == att[call]
           error == StreamingError(at.provider, call)
           s == Loop(OnFailure(MarkFailed(Sess, call, error), FailLabel, at.model, error,
                               call)) IN
       /\ Apply(s)
       /\ response' = Delivered(response, s)
       /\ pc' = PcOf(s.att)
    /\ UNCHANGED <<params, bridge, peer, quote, reader, available, providers, clients, mode, models,
                   retries, emitted, chan, processing, chunksLeft>>

\* AnthropicProvider.generateWithCallbacks, the vendor stream's "error" event: the
\* handler calls onError(error) and rejects the promise the method awaits, whose
\* catch block calls onError(error) again.
AnthropicError ==
  \E call \in DOMAIN att :
    /\ mode = "generateWithCallbacks"
    /\ att[call].st = "run"
    /\ att[call].provider = "anthropic"
    /\ LET at == att[call]
           error == StreamingError(at.provider, call)
           s0 == [Sess EXCEPT !.att[call].st = "errored", !.att[call].error = error]
           s1 == Loop(OnFailure(s0, FailLabel, at.model, error, call))
           s2 == Loop(OnFailure(s1, FailLabel, at.model, error, call)) IN
       /\ Apply(s2)
       /\ response' = Delivered(Delivered(response, s1), s2)
       /\ pc' = PcOf(s2.att)
    /\ UNCHANGED <<params, bridge, peer, quote, reader, available, providers, clients, mode, models,
                   retries, emitted, chan, processing, chunksLeft>>

\* AnthropicProvider.generateWithCallbacks, the vendor stream's "end" event (the
\* vendor's stream also ends after it has reported an error): the handler starts a
\* second request and awaits its finalMessage()
AnthropicEnd ==
  \E call \in DOMAIN att :
    /\ mode = "generateWithCallbacks"
    /\ att[call].st \in {"run", "errored"}
    /\ att[call].provider = "anthropic"
    /\ att' = [att EXCEPT ![call].st = IF @ = "run" THEN "ending" ELSE "errored-ending"]
    /\ UNCHANGED <<params, bridge, peer, quote, reader, available, providers, clients, mode, models,
                   retries, currentModelIndex, currentAttempt, lastError, pc, warns,
                   emitted, chan, response, processing, chunksLeft>>

\* finalMessage() of the second request settles: onComplete is called with the
\* usage it reports, or with zero usage from the handler's catch block
AnthropicComplete ==
  \E call \in DOMAIN att :
    /\ mode = "generateWithCallbacks"
    /\ att[call].st \in {"ending", "errored-ending"}
    /\ \E u \in UsageChoices : response' = Append(response, OnComplete(call, att[call], u))
    /\ att' = [att EXCEPT ![call].st = IF @ = "ending" THEN "ok" ELSE "failed-ok"]
    /\ pc' = PcOf(att')
    /\ UNCHANGED <<params, bridge, peer, quote, reader, available, providers, clients, mode, models,
                   retries, currentModelIndex, currentAttempt, lastError, warns,
                   emitted, chan, processing, chunksLeft>>

Next ==
  \/ GenerateStart
  \/ GenerateResolved
  \/ GenerateRejected
  \/ StreamStart
  \/ StreamChunk
  \/ StreamEnd
  \/ StreamError
  \/ StreamErrorSwallowed
  \/ GetMetadata
  \/ Read
  \/ CallbacksStart
  \/ CallbacksChunk
  \/ CallbacksComplete
  \/ CallbacksError
  \/ AnthropicError
  \/ AnthropicEnd
  \/ AnthropicComplete

Spec == Init /\ [][Next]_vars

\* --------------------------------------------------- the availability query
\* The model ids isModelAvailable is asked about.
ProbePool == CandidatePool \cup Inherited

\* isModelAvailable(model): the try block returns; nothing in it throws
IsModelAvailable ==
  /\ Len(available) < MaxProbes
  /\ \E model \in ProbePool :
       available' = Append(available, [model |-> model, result |-> isModelAvailable(model),
                                       threw |-> FALSE, settled |-> pc = "settled"])
  /\ UNCHANGED <<params, bridge, peer, quote, reader, providers, clients, mode, models, retries,
                 currentModelIndex, currentAttempt, lastError, pc, att, warns, emitted,
                 chan, response, processing, chunksLeft>>

\* Availability queries made before, during and after a generate request.
RouterNext ==
  \/ IsModelAvailable
  \/ GenerateStart
  \/ GenerateResolved
  \/ GenerateRejected

RouterInit == Init /\ mode = "generate"

RouterSpec == RouterInit /\ [][RouterNext]_vars

\* ------------------------------------------- two requests on one factory
\* A second generateWithCallbacks call with the same parameters, made on the same
\* factory while the first is in flight.  Its currentModelIndex, currentAttempt and
\* lastError are the let-variables of its own call, its tryGeneration and callbacks
\* closures over them; it shares this.providers and the adapters with the first.
SharedCounter(own, other) == other
OwnCounter(own, other) == own

PeerSess ==
  [i |-> peer.i, a |-> OwnCounter(peer.a, currentAttempt), e |-> peer.e,
   att |-> peer.att, warns |-> peer.warns]

\* The peer's chunks are not followed, its attempts relay nothing, and its vendors
\* report one usage.
PeerUsage == <<1, 2>>

PeerAtt(at) == [k \in DOMAIN at |-> [at[k] EXCEPT !.from = 0]]

PeerApply(s, resp) ==
  peer' = [started |-> TRUE, i |-> s.i, a |-> s.a, e |-> s.e, att |-> PeerAtt(s.att),
           warns |-> s.warns, response |-> resp]

PeerFixed ==
  UNCHANGED <<params, bridge, quote, reader, available, providers, clients, mode, models, retries,
              currentModelIndex, currentAttempt, lastError, pc, att, warns, emitted,
              chan, response, processing, chunksLeft>>

\* the peer's first tryGeneration()
PeerStart ==
  /\ mode = "generateWithCallbacks"
  /\ ~peer.started
  /\ LET s == Loop(PeerSess) IN PeerApply(s, Delivered(peer.response, s))
  /\ PeerFixed

\* BaseLLMProvider.generateWithCallbacks calls the onComplete of the peer's wrapper
PeerComplete ==
  \E call \in DOMAIN peer.att :
    /\ peer.att[call].st = "run"
    /\ peer.att[call].provider # "anthropic"
    /\ peer.att[call].provider \in clients
    /\ PeerApply([PeerSess EXCEPT !.att[call].st = "ok"],
                 Append(peer.response,
                        [OnComplete(call, peer.att[call], PeerUsage)
                           EXCEPT !.seen = Len(peer.warns)]))
    /\ PeerFixed

\* BaseLLMProvider.generateWithCallbacks calls the onError of the peer's wrapper
PeerError ==
  \E call \in DOMAIN peer.att :
    /\ peer.att[call].st = "run"
    /\ peer.att[call].provider # "anthropic"
    /\ LET at == peer.att[call]
           error == StreamingError(at.provider, call)
           s == Loop(OnFailure(MarkFailed(PeerSess, call, error), FailLabel, at.model,
                               error, call)) IN
       PeerApply(s, Delivered(peer.response, s))
    /\ PeerFixed

\* AnthropicProvider.generateWithCallbacks calls the onError of the peer's wrapper
\* from its "error" handler and again from its catch block
PeerAnthropicError ==
  \E call \in DOMAIN peer.att :
    /\ peer.att[call].st = "run"
    /\ peer.att[call].provider = "anthropic"
    /\ LET at == peer.att[call]
           error == StreamingError(at.provider, call)
           s0 == [PeerSess EXCEPT !.att[call].st = "errored", !.att[call].error = error]
           s1 == Loop(OnFailure(s0, FailLabel, at.model, error, call))
           s2 == Loop(OnFailure(s1, FailLabel, at.model, error, call)) IN
       PeerApply(s2, Delivered(Delivered(peer.response, s1), s2))
    /\ PeerFixed

\* the "end" event of the peer's Anthropic attempt
PeerAnthropicEnd ==
  \E call \in DOMAIN peer.att :
    /\ peer.att[call].st \in {"run", "errored"}
    /\ peer.att[call].provider = "anthropic"
    /\ PeerApply([PeerSess EXCEPT !.att[call].st =
                                   IF @ = "run" THEN "ending" ELSE "errored-ending"],
                 peer.response)
    /\ PeerFixed

\* the "end" handler of the peer's Anthropic attempt calls onComplete
PeerAnthropicComplete ==
  \E call \in DOMAIN peer.att :
    /\ peer.att[call].st \in {"ending", "errored-ending"}
    /\ PeerApply([PeerSess EXCEPT !.att[call].st =
                                   IF @ = "ending" THEN "ok" ELSE "failed-ok"],
                 Append(peer.response,
                        [OnComplete(call, peer.att[call], PeerUsage)
                           EXCEPT !.seen = Len(peer.warns)]))
    /\ PeerFixed

\* The steps of the two requests, interleaved in every order.  onChunk touches
\* neither request's counters and is left out.
PairNext ==
  \/ CallbacksStart
  \/ CallbacksComplete
  \/ CallbacksError
  \/ AnthropicError
  \/ AnthropicEnd
  \/ AnthropicComplete
  \/ PeerStart
  \/ PeerComplete
  \/ PeerError
  \/ PeerAnthropicError
  \/ PeerAnthropicEnd
  \/ PeerAnthropicComplete

\* Two callback-mode requests with retries given and room for at most
\* MaxPairAttempts attempts each.
PairInit ==
  /\ Init
  /\ mode = "generateWithCallbacks"
  /\ retries # <<>>
  /\ Len(models) * maxRetries <= MaxPairAttempts

PairSpec == PairInit /\ [][PairNext]_vars

\* ------------------------------------------------------ the cost calculator
\* Token counts calculateCost is asked about, in thousands: both sides of the
\* 200,000-token threshold and the counts of tests/tokens.test.ts.
TokenChoices == {0, 1, 2, 5, 50, 100, 199, 200, 201, 250, 300, 500, 1000}

\* The model ids calculateCost is asked about: every key of MODEL_PRICING and one id
\* the table does not hold.
PricedPool == DOMAIN MODEL_PRICING \cup {"no-such-model"}

NoPricing(model) == <<"No pricing information available for model", model>>

\* calculateCost(model, inputTokens, outputTokens): throws if (!pricing)
CalculateCost ==
  /\ quote = <<>>
  /\ \E model \in PricedPool, inputTokens \in TokenChoices, outputTokens \in TokenChoices :
       quote' = <<[model |-> model, inputTokens |-> inputTokens,
                   outputTokens |-> outputTokens,
                   threw |-> IF model \in DOMAIN MODEL_PRICING THEN <<>>
                             ELSE NoPricing(model),
                   cost |-> IF model \in DOMAIN MODEL_PRICING
                              THEN calculateCost(model, inputTokens, outputTokens)
                              ELSE 0]>>
  /\ UNCHANGED <<params, bridge, peer, reader, available, providers, clients, mode, models, retries,
                 currentModelIndex, currentAttempt, lastError, pc, att, warns, emitted,
                 chan, response, processing, chunksLeft>>

\* One factory, no request: only the calculator runs.
CostInit ==
  /\ Init
  /\ providers = ProviderNames
  /\ clients = ProviderNames
  /\ mode = "generate"
  /\ models = <<"gpt-4o">>
  /\ retries = <<>>

CostSpec == CostInit /\ [][CalculateCost]_vars

\* ------------------------------------------- requests of either content
\* One request as in Spec, on at most two candidates and with retries given, its
\* content being the plain text request or the one with schema, sampling options
\* and attachments.
RequestInit ==
  /\ InitWith(CallerRequests)
  /\ Len(models) <= 2
  /\ retries # <<>>

RequestSpec == RequestInit /\ [][Next]_vars

\* ------------------------------- the Anthropic event-to-iterator bridge
\* extractTextChunksFromStream turns the vendor stream's "text", "error" and
\* "end" events into an async iterator.  bridge holds the locals of one
\* iterator (textQueue, resolveNext, rejectNext, streamEnded, streamError;
\* the two resolvers are TRUE when non-null) and, for the properties, whether
\* the promise the last next() returned is still pending (waiting), the text
\* of every "text" event (texts) and what each next() settled to (results).
\* The consumer keeps one next() outstanding at a time.
TextPool == {"", "a", "b"}

StreamFailure == <<"stream error">>

NextValue(text) == [kind |-> "value", value |-> text, error |-> <<>>]

NextDone == [kind |-> "done", value |-> "", error |-> <<>>]

NextRejected(error) == [kind |-> "rejected", value |-> "", error |-> error]

\* Calling a resolver of the promise next() returned: it settles the promise
\* if that is still pending and does nothing to one already settled.
Settle(b, result) ==
  IF b.waiting THEN [b EXCEPT !.waiting = FALSE, !.results = Append(@, result)]
  ELSE b

\* textQueue.push(text), and the mutant that puts the text in front.
QueueAtFront(q, text) == <<text>> \o q

QueuePush(q, text) == Append(q, text)

\* streamResult.on("text", ...): an empty text is dropped; a text resolves the
\* pending next() when resolveNext is set and is queued otherwise.
OnTextEvent ==
  /\ ~bridge.streamEnded
  /\ bridge.streamError = <<>>
  /\ Len(bridge.texts) < MaxTexts
  /\ \E text \in TextPool :
       LET b == [bridge EXCEPT !.texts = Append(@, text)] IN
       bridge' = IF text = "" THEN b
                 ELSE IF b.resolveNext
                   THEN Settle([b EXCEPT !.resolveNext = FALSE], NextValue(text))
                 ELSE [b EXCEPT !.textQueue = QueuePush(@, text)]
  /\ UNCHANGED <<params, peer, quote, reader, available, providers, clients, mode, models,
                 retries, currentModelIndex, currentAttempt, lastError, pc, att, warns,
                 emitted, chan, response, processing, chunksLeft>>

\* streamResult.on("error", ...): records the error and rejects through
\* rejectNext when that is set.
OnErrorEvent ==
  /\ ~bridge.streamEnded
  /\ bridge.streamError = <<>>
  /\ LET b == [bridge EXCEPT !.streamError = StreamFailure] IN
     bridge' = IF b.rejectNext
                 THEN Settle([b EXCEPT !.rejectNext = FALSE], NextRejected(StreamFailure))
               ELSE b
  /\ UNCHANGED <<params, peer, quote, reader, available, providers, clients, mode, models,
                 retries, currentModelIndex, currentAttempt, lastError, pc, att, warns,
                 emitted, chan, response, processing, chunksLeft>>

\* streamResult.on("end", ...): the vendor stream emits "end" when the response
\* is complete and may emit it after "error" as well.
OnEndEvent ==
  /\ ~bridge.streamEnded
  /\ LET b == [bridge EXCEPT !.streamEnded = TRUE] IN
     bridge' = IF b.resolveNext
                 THEN Settle([b EXCEPT !.resolveNext = FALSE], NextDone)
               ELSE b
  /\ UNCHANGED <<params, peer, quote, reader, available, providers, clients, mode, models,
                 retries, currentModelIndex, currentAttempt, lastError, pc, att, warns,
                 emitted, chan, response, processing, chunksLeft>>

\* next(): a queued text first, then done if the stream ended, then the
\* recorded error, otherwise a new pending promise whose resolvers are stored.
IteratorNext ==
  /\ ~bridge.waiting
  /\ Len(bridge.results) < MaxNexts
  /\ bridge' =
       IF bridge.textQueue # <<>>
         THEN [bridge EXCEPT !.textQueue = Tail(@),
                             !.results = Append(@, NextValue(Head(bridge.textQueue)))]
       ELSE IF bridge.streamEnded
         THEN [bridge EXCEPT !.results = Append(@, NextDone)]
       ELSE IF bridge.streamError # <<>>
         THEN [bridge EXCEPT !.results = Append(@, NextRejected(bridge.streamError))]
       ELSE [bridge EXCEPT !.resolveNext = TRUE, !.rejectNext = TRUE, !.waiting = TRUE]
  /\ UNCHANGED <<params, peer, quote, reader, available, providers, clients, mode, models,
                 retries, currentModelIndex, currentAttempt, lastError, pc, att, warns,
                 emitted, chan, response, processing, chunksLeft>>

BridgeNext == OnTextEvent \/ OnErrorEvent \/ OnEndEvent \/ IteratorNext

\* One adapter, one vendor stream, one iterator: no request of the factory runs.
BridgeInit ==
  /\ Init
  /\ providers = ProviderNames
  /\ clients = ProviderNames
  /\ mode = "generateStream"
  /\ models = <<"claude-3-5-haiku-latest">>
  /\ retries = <<>>

BridgeSpec == BridgeInit /\ [][BridgeNext]_vars

\* ------------------------------------------------------------ properties
Succeeded(at) == at.st \in {"ok", "failed-ok"}

Failed(at) == at.st \in {"failed", "errored", "errored-ending", "failed-ok"}

\* The deliveries that tell the caller of a success.
Successes == {k \in DOMAIN response : response[k].kind \in {"resolved", "onComplete", "metadata"}}

\* The errors the request itself has failed with: the rejection of generate, the
\* error of the returned stream, the caller's onError.
Surfaced ==
  {[error |-> response[k].error, seen |-> response[k].seen] :
     k \in {j \in DOMAIN response :
              /\ response[j].kind \in {"rejected", "onError"}
              /\ mode \in {"generate", "generateWithCallbacks"}}}
  \cup (IF chan.state = "errored"
          THEN {[error |-> chan.error, seen |-> chan.seen]}
          ELSE {})

Aggregates == {f \in Surfaced : f.error[1] = "All models failed after retries"}

AttemptsOn(i) == {k \in DOMAIN att : att[k].i = i}

Reported(k) == {w \in DOMAIN warns : warns[w].call = k}

C2_ListOrderAfterRFailures ==
  maxRetries >= 1 =>
    \A k \in DOMAIN att :
      /\ k > 1 => att[k].i >= att[k - 1].i
      /\ att[k].n = Cardinality({j \in 1..k : att[j].i = att[k].i})
      /\ \A j \in 1..(k - 1) :
           /\ ~Succeeded(att[j])
           /\ att[j].i < att[k].i => Failed(att[j])
      /\ \A c \in 0..(att[k].i - 1) :
           Resolves(models[c + 1]) => Cardinality(AttemptsOn(c)) = maxRetries

\* C3: in every mode the metadata delivered with a success names the candidate
\* whose attempt succeeded.
C3_MetadataModelIsSucceedingCandidate ==
  \A k \in Successes :
    LET r == response[k] IN
    /\ r.call \in DOMAIN att
    /\ Succeeded(att[r.call])
    /\ r.metadata.model = models[att[r.call].i + 1]

C3_Witness ==
  /\ Len(models) = 3
  /\ \E k \in Successes :
       /\ att[response[k].call].i = 2
       /\ response[k].metadata.model = models[3]
       /\ \A j \in 1..(response[k].call - 1) : Failed(att[j])

\* C4: every failed attempt is reported by exactly one warning, which names the
\* attempt's candidate model and its 1-based number out of R.
C4_EveryFailureWarnedOnce ==
  \A k \in DOMAIN att :
    Failed(att[k]) =>
      /\ Cardinality(Reported(k)) = 1
      /\ \A w \in Reported(k) :
           /\ warns[w].model = att[k].model
           /\ warns[w].attempt = att[k].n
           /\ warns[w].of = maxRetries

\* C5: when the first candidate succeeds after j < R failures, j + 1 attempts have
\* been made, all on that candidate, and the metadata delivered is that of the
\* successful attempt: its token counts and the cost of those; 1000 input and 2000
\* output tokens of gpt-4o cost 0.0225.
C5_SuccessAfterFailures ==
  \A k \in Successes :
    LET r == response[k]
        call == r.call IN
    (maxRetries >= 1 /\ att[call].i = 0) =>
      /\ Len(att) = call
      /\ call <= maxRetries
      /\ \A j \in 1..(call - 1) : Failed(att[j]) /\ att[j].i = 0
      /\ r.metadata.model = models[1]
      /\ r.metadata.cost =
           calculateCost(models[1], r.metadata.inputTokens, r.metadata.outputTokens)
      /\ (models[1] = "gpt-4o" /\ r.metadata.inputTokens = 1 /\ r.metadata.outputTokens = 2)
           => r.metadata.cost = 22500

\* C6: generate, every candidate resolving and every attempt failing: the R attempts
\* on each candidate are made, and the call rejects once, with 'All models failed
\* after retries: ' followed by the message of the error of the last attempt on the
\* last candidate.
C6_GenerateAggregateError ==
  (/\ mode = "generate"
   /\ pc = "settled"
   /\ maxRetries >= 1
   /\ \A c \in DOMAIN models : Resolves(models[c])
   /\ \A k \in DOMAIN att : ~Succeeded(att[k])) =>
    /\ Len(att) = Len(models) * maxRetries
    /\ att[Len(att)].i = Len(models) - 1
    /\ att[Len(att)].n = maxRetries
    /\ Len(response) = 1
    /\ response[1].kind = "rejected"
    /\ response[1].error =
         <<"All models failed after retries">> \o att[Len(att)].error

C6_Witness ==
  /\ mode = "generate"
  /\ pc = "settled"
  /\ Len(models) = 2
  /\ Len(att) = 4
  /\ att[4].error # att[1].error
  /\ response[1].error = <<"All models failed after retries">> \o att[4].error

\* C7 as stated: every aggregate failure includes the identity of the last candidate
\* tried and the message of the last underlying error.
C7_AggregateNamesLastCandidate ==
  \A f \in Aggregates :
    f.seen > 0 =>
      /\ \E p \in DOMAIN f.error : f.error[p] = warns[f.seen].model
      /\ f.error = <<"All models failed after retries">> \o warns[f.seen].error

\* C7: in every mode the aggregate failure is 'All models failed after retries: '
\* followed by the message of the last error caught ('Unknown error' when none was);
\* the candidate's identity is no part of it.
C7_AggregateCarriesLastError ==
  \A f \in Aggregates :
    f.error = <<"All models failed after retries">>
                \o (IF f.seen = 0 THEN <<"Unknown error">> ELSE warns[f.seen].error)

C7_Witness ==
  \E f \in Aggregates :
    /\ f.seen > 1
    /\ warns[f.seen].error # warns[1].error
    /\ \A p \in DOMAIN f.error : f.error[p] # warns[f.seen].model

\* C8: a candidate absent from the routing table does not keep the other candidates
\* from being tried: a request does not end without a success while a candidate that
\* resolves has had no attempt.
C8_UnknownCandidateFallsBack ==
  (/\ maxRetries >= 1
   /\ pc = "settled"
   /\ \E c \in DOMAIN models : ~Routed(models[c])
   /\ \A c \in DOMAIN models : Routed(models[c]) => ProviderOf(models[c]) \in clients
   /\ \A k \in DOMAIN att : ~Succeeded(att[k])) =>
    \A c \in DOMAIN models : Resolves(models[c]) => AttemptsOn(c - 1) # {}

\* C9: a candidate whose provider is not initialised is a failed attempt like any
\* other: it takes up its R slots, each reported, and the request goes on to the next
\* candidate; the request ends without a success only with every candidate used up
\* and the aggregate failure.
C9_ProviderUnavailableFallsBack ==
  (/\ maxRetries >= 1
   /\ pc = "settled"
   /\ \A c \in DOMAIN models : Routed(models[c])
   /\ \E c \in DOMAIN models : ProviderOf(models[c]) \notin clients
   /\ \A k \in DOMAIN att : ~Succeeded(att[k])) =>
    /\ \A c \in DOMAIN models :
         Cardinality({w \in DOMAIN warns : warns[w].model = models[c]}) >= maxRetries
    /\ Aggregates # {}

\* C10: generate with a single candidate absent from the routing table rejects at
\* once with 'Unsupported model: <id>': no adapter is invoked, no warning is logged,
\* no attempt is counted.
C10_SoleUnknownModelFailsAtOnce ==
  (mode = "generate" /\ Len(models) = 1 /\ ~Routed(models[1])) =>
    /\ att = <<>>
    /\ warns = <<>>
    /\ currentAttempt = 0
    /\ pc \in {"start", "settled"}
    /\ pc = "settled" =>
         /\ Len(response) = 1
         /\ response[1].kind = "rejected"
         /\ response[1].error = <<"Unsupported model", models[1]>>

C10_Witness ==
  /\ mode = "generate"
  /\ models = <<"no-such-model">>
  /\ pc = "settled"
  /\ response[1].error = <<"Unsupported model", "no-such-model">>

\* ------------------------------------------------- properties, continued
OnErrors == {k \in DOMAIN response : response[k].kind = "onError"}

OnCompletes == {k \in DOMAIN response : response[k].kind = "onComplete"}

\* The attempts on a candidate that have failed.
FailuresOn(i) == {k \in AttemptsOn(i) : Failed(att[k])}

\* C11: in each of the three streaming modes a sole candidate absent from the
\* routing table fails at once: nothing is reported as a failed attempt and none of
\* the R slots is consumed.
C11_StreamingSoleUnknownModelFailsAtOnce ==
  (mode # "generate" /\ Len(models) = 1 /\ ~Routed(models[1])) =>
    /\ att = <<>>
    /\ warns = <<>>
    /\ currentAttempt = 0

\* C12: in callback mode the caller's onError is invoked at most once, and only
\* when every candidate has failed R attempts (an unresolvable one R look-ups).
C12_OnErrorOnceAfterExhaustion ==
  (mode = "generateWithCallbacks" /\ maxRetries >= 1) =>
    /\ Cardinality(OnErrors) <= 1
    /\ OnErrors # {} =>
         \A c \in DOMAIN models :
           IF Resolves(models[c])
             THEN Cardinality(FailuresOn(c - 1)) = maxRetries
             ELSE Cardinality({w \in DOMAIN warns :
                                 warns[w].model = models[c] /\ warns[w].call = 0})
                    = maxRetries

\* C13: in callback mode the caller never receives both onComplete and onError for
\* one request, and neither of them more than once.
C13_NeverBothCallbacks ==
  mode = "generateWithCallbacks" =>
    /\ Cardinality(OnErrors) <= 1
    /\ Cardinality(OnCompletes) <= 1
    /\ OnErrors = {} \/ OnCompletes = {}

\* The chunks attempt k has produced, in the order it produced them.
ChunksOf(k) == [j \in 1..att[k].sent |-> <<k, j>>]

\* What of the relayed chunks stems from attempt k, in the order relayed.
RelayedOf(k) ==
  LET OfK(chunk) == chunk[1] = k IN SelectSeq(emitted, OfK)

\* Every chunk relayed was relayed before any later attempt began.
InAttemptOrder ==
  \A p \in DOMAIN emitted : \A k \in DOMAIN att : emitted[p][1] < k => p <= att[k].from

\* C14: in callback mode onComplete fires only for the terminal successful attempt
\* (one that has not failed, with no attempt after it), and its text is that
\* attempt's chunks, in order, and no chunk of any other attempt.
C14_OnCompleteTextOfWinningAttempt ==
  mode = "generateWithCallbacks" =>
    /\ Cardinality(OnCompletes) <= 1
    /\ \A k \in OnCompletes :
         LET r == response[k] IN
         /\ att[r.call].st = "ok"
         /\ r.call = Len(att)
         /\ \A j \in 1..(r.call - 1) : Failed(att[j])
         /\ r.text = ChunksOf(r.call)

\* C15: in callback mode onChunk is invoked once for every chunk an attempt
\* produces, in the order produced, also for attempts that fail later, and never
\* after a later attempt has begun.
C15_OnChunkRelaysActiveAttempt ==
  mode = "generateWithCallbacks" =>
    /\ \A k \in DOMAIN att : RelayedOf(k) = ChunksOf(k)
    /\ Len(emitted) = MaxChunks - chunksLeft
    /\ InAttemptOrder

\* The relayed chunks are ordered by attempt.
ByAttempt == \A p, q \in DOMAIN emitted : p < q => emitted[p][1] <= emitted[q][1]

\* C16: generateReadableStream does not retract what a failed attempt has enqueued:
\* while the stream has not errored, the chunks of every failed attempt are still in
\* it, and a consumer that reads a successful request to its end has read the chunks
\* of each failed attempt, in attempt order, and then all chunks of the winning one.
C16_FailedAttemptChunksStay ==
  (mode = "generateReadableStream" /\ chan.state # "errored") =>
    /\ \A k \in DOMAIN att : Failed(att[k]) => RelayedOf(k) = ChunksOf(k)
    /\ reader.n <= Len(emitted)
    /\ reader.end = "done" =>
         /\ chan.state = "closed"
         /\ att[Len(att)].st = "ok"
         /\ reader.n = Len(emitted)
         /\ ByAttempt
         /\ \A k \in DOMAIN att : RelayedOf(k) = ChunksOf(k)

C16_Witness ==
  /\ mode = "generateReadableStream"
  /\ Len(models) = 2
  /\ retries = <<1>>
  /\ Len(att) = 2
  /\ att[1].st = "failed"
  /\ att[2].st = "ok"
  /\ emitted = <<<<1, 1>>, <<2, 1>>>>
  /\ reader.end = "done"
  /\ reader.n = 2

\* C17: in generateStream and generateReadableStream a chunk an attempt produces is
\* relayed to the output stream once and no more, the chunks of one attempt in the
\* order produced, and the chunks of an earlier attempt before those of a later one.
C17_RelayOrder ==
  mode \in StreamModes =>
    /\ \A p, q \in DOMAIN emitted : emitted[p] = emitted[q] => p = q
    /\ \A p, q \in DOMAIN emitted :
         (p < q /\ emitted[p][1] = emitted[q][1]) => emitted[p][2] < emitted[q][2]
    /\ ByAttempt
    /\ InAttemptOrder

C17_Witness ==
  /\ mode = "generateStream"
  /\ Len(att) = 2
  /\ att[1].st = "failed"
  /\ emitted = <<<<1, 1>>, <<2, 1>>>>

\* C18: in generateStream and generateReadableStream, once every candidate has used
\* up its attempts the output stream is errored, with 'All models failed after
\* retries: ' and the message of the last error caught, and a read rejects with it;
\* the stream is neither left open nor closed as on a normal end.
C18_ExhaustionErrorsTheStream ==
  mode \in StreamModes =>
    /\ currentModelIndex >= Len(models) =>
         /\ chan.state = "errored"
         /\ pc = "settled"
         /\ warns # <<>>
         /\ chan.error = <<"All models failed after retries">> \o warns[Len(warns)].error
    /\ chan.state = "errored" =>
         /\ currentModelIndex >= Len(models)
         /\ \A k \in DOMAIN att : att[k].st = "failed"
    /\ chan.state = "closed" => (att # <<>> /\ att[Len(att)].st = "ok")
    /\ pc = "settled" => chan.state \in {"closed", "errored"}
    /\ reader.end = "error" => (chan.state = "errored" /\ reader.error = chan.error)
    /\ reader.end = "done" => chan.state = "closed"

C18_Witness ==
  /\ mode = "generateStream"
  /\ Len(models) = 2
  /\ Len(att) = 4
  /\ chan.state = "errored"
  /\ chan.error = <<"All models failed after retries">> \o att[4].error
  /\ reader.end = "error"

\* C19: in generateStream and generateReadableStream getMetadata resolves only once
\* the winning attempt's stream has ended and the output stream has been closed,
\* with the metadata of that attempt and of no failed one, and rejects when the
\* request ended with every candidate used up.
C19_MetadataAfterSuccessOnly ==
  (mode \in StreamModes /\ response # <<>>) =>
    /\ Len(response) = 1
    /\ pc = "settled"
    /\ response[1].kind \in {"metadata", "rejected"}
    /\ response[1].kind = "metadata" =>
         /\ chan.state = "closed"
         /\ response[1].call = Len(att)
         /\ att[Len(att)].st = "ok"
         /\ response[1].metadata.model = att[Len(att)].model
    /\ chan.state = "errored" =>
         /\ response[1].kind = "rejected"
         /\ response[1].error[1] = "Failed to get metadata"

C19_Witness ==
  /\ mode = "generateReadableStream"
  /\ Len(att) = 2
  /\ att[1].st = "failed"
  /\ att[2].st = "ok"
  /\ response # <<>>
  /\ response[1].kind = "metadata"
  /\ response[1].metadata.model = models[att[2].i + 1]

\* C20: isModelAvailable never throws, and returns true exactly when
\* getProviderForModel would return a provider for the model: false for a model the
\* routing table does not hold and for one whose provider is not in the Map.
C20_AvailableIffResolves ==
  \A k \in DOMAIN available :
    LET q == available[k] IN
    /\ ~q.threw
    /\ q.result = Resolves(q.model)
    /\ q.result = (/\ q.model \in KnownModels
                   /\ MODEL_PROVIDER_MAP[q.model] \in providers)

C20_Witness ==
  /\ available # <<>>
  /\ available[1].model = "gpt-4o"
  /\ "openai" \notin providers
  /\ available[1].result = FALSE

\* C21: isModelAvailable returns false for a routed model whose provider adapter
\* holds no vendor client (initClient left client null because the API key is
\* missing).
C21_UnavailableWithoutClient ==
  \A k \in DOMAIN available :
    LET q == available[k] IN
    (Routed(q.model) /\ ProviderOf(q.model) \notin clients) => q.result = FALSE

\* C22: isModelAvailable(id) returns the same value on every call: calls for the same
\* id made before, during and after a request (successful or failed) agree, and every
\* answer given is still the answer a call would give now.
C22_AvailabilityIsStable ==
  /\ \A j, k \in DOMAIN available :
       available[j].model = available[k].model => available[j].result = available[k].result
  /\ \A k \in DOMAIN available :
       available[k].result = isModelAvailable(available[k].model)

C22_Witness ==
  /\ Len(available) = 2
  /\ available[1].model = available[2].model
  /\ ~available[1].settled
  /\ available[2].settled
  /\ available[1].result = TRUE
  /\ available[2].result = TRUE
  /\ \E k \in DOMAIN att :
       att[k].st = "failed" /\ att[k].provider = ProviderOf(available[1].model)

\* The price of one side under progressive tiers, as the documentation states it:
\* the first T tokens at the lower rate and only those beyond T at the higher rate.
Progressive(n, T, r1, r2) == IF n <= T THEN n * r1 ELSE T * r1 + (n - T) * r2

TieredModels == {m \in DOMAIN MODEL_PRICING : MODEL_PRICING[m].tiered}

\* C24: for a model with tiered pricing the input cost is n/1e6 * r1 when n <= T and
\* T/1e6 * r1 + (n - T)/1e6 * r2 when n > T, the output cost is computed the same way
\* from the output tier alone, and the total is the sum of the two.
C24_TieredPricingIsProgressive ==
  \A k \in DOMAIN quote :
    LET q == quote[k]
        p == MODEL_PRICING[q.model] IN
    q.model \in TieredModels =>
      /\ q.threw = <<>>
      /\ q.cost = Progressive(q.inputTokens, 200, 1250, 2500)
                  + Progressive(q.outputTokens, 200, 10000, 15000)
      /\ q.cost = Progressive(q.inputTokens, p.inThreshold, p.inBelow, p.inAbove)
                  + Progressive(q.outputTokens, p.outThreshold, p.outBelow, p.outAbove)

\* calculateCost("gemini-2.5-pro-preview-03-25", 300_000, 250_000) = 3.25
C24_Witness ==
  /\ quote # <<>>
  /\ quote[1].model = "gemini-2.5-pro-preview-03-25"
  /\ quote[1].inputTokens = 300
  /\ quote[1].outputTokens = 250
  /\ quote[1].cost = 3250000

\* C25: for every model of the pricing table calculateCost is defined and
\* non-negative, and it never decreases when the input tokens or the output tokens
\* grow, for flat and for tiered entries, also across a tier threshold.
C25_CostDefinedNonNegativeMonotone ==
  \A k \in DOMAIN quote :
    LET q == quote[k] IN
    q.model \in DOMAIN MODEL_PRICING =>
      /\ q.threw = <<>>
      /\ q.cost \in Nat
      /\ \A n \in TokenChoices :
           /\ n >= q.inputTokens => calculateCost(q.model, n, q.outputTokens) >= q.cost
           /\ n >= q.outputTokens => calculateCost(q.model, q.inputTokens, n) >= q.cost

\* one token (thousand) past the threshold costs more than the threshold itself
C25_Witness ==
  /\ quote # <<>>
  /\ quote[1].model \in TieredModels
  /\ quote[1].inputTokens = 200
  /\ quote[1].outputTokens = 201
  /\ quote[1].threw = <<>>
  /\ calculateCost(quote[1].model, 201, 201) > quote[1].cost
  /\ quote[1].cost > calculateCost(quote[1].model, 200, 200)

\* The attempts whose adapter has signalled neither failure nor success yet.
Unsignalled == {k \in DOMAIN att : att[k].st \in {"run", "ending"}}

\* The adapter's onComplete calls for invocation k.
Completed(k) ==
  {r \in DOMAIN response : response[r].kind = "onComplete" /\ response[r].call = k}

\* C29: in callback mode at most one adapter attempt of the request is in flight at
\* any time, and one attempt causes at most one retry/advance transition (one run of
\* the onError handler), however often the adapter signals its failure.
C29_OneAttemptInFlight ==
  mode = "generateWithCallbacks" =>
    /\ Cardinality(Unsignalled) <= 1
    /\ \A k \in DOMAIN att :
         /\ Cardinality(Reported(k)) <= 1
         /\ k < Len(att) => Cardinality(Reported(k)) = 1

\* C30: one invocation of an adapter's generateWithCallbacks calls exactly one of
\* onComplete and onError, exactly once: never both, never one of them twice, one of
\* them once the invocation is over, and onError alone after a stream error.
C30_ExactlyOneCallback ==
  mode = "generateWithCallbacks" =>
    \A k \in DOMAIN att :
      /\ Cardinality(Reported(k)) + Cardinality(Completed(k)) <= 1
      /\ ~InFlight(att[k]) => Cardinality(Reported(k)) + Cardinality(Completed(k)) = 1
      /\ Failed(att[k]) => Completed(k) = {}

\* The failures the request has met: attempts whose adapter failed, and look-ups of
\* a candidate's provider that threw.
FailuresMet ==
  Cardinality({k \in DOMAIN att : Failed(att[k])})
  + Cardinality({w \in DOMAIN warns : warns[w].call = 0})

\* C28: in each streaming mode with R >= 1 every attempt starts with
\* 0 <= candidateIndex < |candidates| and 0 <= attemptIndex < R, the session starts
\* at (0, 0), candidateIndex never exceeds |candidates|, and the counters count the
\* failures: each failure adds one to attemptIndex, which goes back to 0 with
\* candidateIndex going up by one exactly when it reaches R.
C28_CountersCountFailures ==
  (mode # "generate" /\ maxRetries >= 1) =>
    /\ pc = "start" => currentModelIndex = 0 /\ currentAttempt = 0
    /\ \A k \in DOMAIN att :
         /\ 0 <= att[k].i /\ att[k].i < Len(models)
         /\ 1 <= att[k].n /\ att[k].n <= maxRetries
    /\ 0 <= currentModelIndex /\ currentModelIndex <= Len(models)
    /\ 0 <= currentAttempt /\ currentAttempt < maxRetries
    /\ currentModelIndex * maxRetries + currentAttempt = FailuresMet

\* The caller has the request's terminal outcome: generate has settled its promise,
\* callback mode has called onComplete or onError, a stream mode has closed or
\* errored the stream it returned.
Terminated ==
  CASE mode = "generate" ->
         \E k \in DOMAIN response : response[k].kind \in {"resolved", "rejected"}
    [] mode = "generateWithCallbacks" -> OnCompletes # {} \/ OnErrors # {}
    [] OTHER -> chan.state \in {"closed", "errored"}

\* C27: a request makes at most |candidates| x R adapter attempts, and when no
\* attempt of it is pending or scheduled any more the caller has its terminal
\* outcome: it never stays pending for ever.
C27_ReachesTerminalOutcome ==
  /\ Len(att) <= Len(models) * maxRetries
  /\ pc = "settled" => Terminated

\* The request succeeded, as each mode tells its caller: generate resolves, callback
\* mode calls onComplete, a stream mode closes the stream it returned.
Success ==
  CASE mode = "generate" -> \E k \in DOMAIN response : response[k].kind = "resolved"
    [] mode = "generateWithCallbacks" -> OnCompletes # {}
    [] OTHER -> chan.state = "closed"

\* Every candidate is routed to a provider that is in the Map and holds a client.
AllInitialized ==
  \A c \in DOMAIN models : Routed(models[c]) /\ ProviderOf(models[c]) \in clients

\* C26: with every candidate routed to an initialized provider and R >= 1, each of
\* the four modes follows one and the same schedule, a function of the attempts'
\* outcomes alone: invocation k is attempt ((k - 1) mod R) + 1 on candidate
\* (k - 1) div R and is made only after invocation k - 1 failed; the request
\* succeeds exactly on the first attempt that succeeds, with that candidate, and is
\* exhausted exactly when all |candidates| x R attempts failed.
C26_ModesFollowOneSchedule ==
  (AllInitialized /\ maxRetries >= 1) =>
    /\ \A k \in DOMAIN att :
         /\ att[k].i = (k - 1) \div maxRetries
         /\ att[k].n = ((k - 1) % maxRetries) + 1
         /\ k < Len(att) => Failed(att[k]) /\ ~Succeeded(att[k])
    /\ Success => /\ att # <<>>
                  /\ Succeeded(att[Len(att)])
                  /\ ~Failed(att[Len(att)])
                  /\ Aggregates = {}
    /\ Aggregates # {} => /\ Len(att) = Len(models) * maxRetries
                          /\ \A k \in DOMAIN att : Failed(att[k]) /\ ~Succeeded(att[k])
    /\ pc = "settled" => Success \/ Aggregates # {}

\* The peer's session as its own closures hold it.
PeerOwn ==
  [i |-> peer.i, a |-> peer.a, e |-> peer.e, att |-> peer.att, warns |-> peer.warns]

\* A session as a request run alone leaves it, told from its own history only: its
\* counters count the failures its own handlers have handled, its last error is
\* the error of its own last failure, every failure it handled is one of its own
\* attempts (or look-ups), its attempts on a candidate are numbered 1, 2, ..., and
\* what its caller was handed stems from its own attempts.
Solo(s, resp) ==
  /\ IF maxRetries >= 1
       THEN s.i * maxRetries + s.a = Len(s.warns)
       ELSE s.i = Len(s.warns) /\ s.a = 0
  /\ s.e = IF s.warns = <<>> THEN <<>> ELSE s.warns[Len(s.warns)].error
  /\ \A w \in DOMAIN s.warns :
       LET x == s.warns[w] IN
       /\ x.call \in 0..Len(s.att)
       /\ x.call > 0 => s.att[x.call].error = x.error /\ s.att[x.call].model = x.model
       /\ maxRetries >= 1 => x.attempt = ((w - 1) % maxRetries) + 1
  /\ \A k \in DOMAIN s.att :
       /\ s.att[k].n = Cardinality({j \in 1..k : s.att[j].i = s.att[k].i})
       /\ s.att[k].model = models[s.att[k].i + 1]
       /\ Failed(s.att[k]) => \E w \in DOMAIN s.warns : s.warns[w].call = k
  /\ \A r \in DOMAIN resp :
       IF resp[r].kind = "onComplete"
         THEN /\ resp[r].call \in DOMAIN s.att
              /\ Succeeded(s.att[resp[r].call])
              /\ resp[r].metadata.model = s.att[resp[r].call].model
         ELSE /\ resp[r].kind = "onError"
              /\ resp[r].seen \in 1..Len(s.warns)
              /\ resp[r].error = AllModelsFailed(s.warns[resp[r].seen].error)

\* C23: two requests in flight on the same factory at the same time are isolated:
\* under every interleaving of their steps each of them is in a state it reaches
\* when run alone, its candidate index, attempt counter and last error determined
\* by its own failures and by nothing the other request did.
C23_RequestsAreIsolated ==
  /\ Solo(Sess, response)
  /\ Solo(PeerOwn, peer.response)

C23_Witness ==
  /\ pc = "running"
  /\ peer.started
  /\ \E k \in DOMAIN peer.att : InFlight(peer.att[k])
  /\ currentAttempt = 1
  /\ peer.a = 0
  /\ Len(warns) = 1
  /\ peer.warns = <<>>

\* C37: for every retry budget R >= 0 no candidate is attempted more than R times,
\* in any mode; with retries = 0 no adapter is invoked and the request ends with
\* the aggregate failure.
C37_AtMostRAttemptsPerCandidate ==
  /\ \A c \in DOMAIN models : Cardinality(AttemptsOn(c - 1)) <= maxRetries
  /\ maxRetries = 0 =>
       /\ att = <<>>
       /\ (pc = "settled" /\ \A c \in DOMAIN models : Resolves(models[c])) =>
            Aggregates # {}

\* C34: in generateStream exhaustion reaches the caller through the errored stream
\* and through the rejection of getMetadata() only: when the consumer has read the
\* stream to its error, no rejected promise of the request is left that no handler
\* of the caller observes, also when getMetadata() has not been called.
C34_NoUnobservedRejection ==
  (mode = "generateStream" /\ reader.end = "error") =>
    (processing.state = "rejected" => response # <<>>)

\* C35: after the consumer has cancelled the stream of a generateStream or
\* generateReadableStream request no further adapter attempt is started, the
\* stream stays terminated, and the cancellation is not handled as a failed attempt.
C35_CancelStopsTheRequest ==
  (mode \in StreamModes /\ reader.end = "cancelled") =>
    /\ Len(att) = reader.att
    /\ chan.state = "cancelled"
    /\ \A w \in DOMAIN warns : warns[w].error # InvalidState

\* C36: in generateStream and generateReadableStream the output stream gets exactly
\* one terminal event per request: a close, after every chunk of the winning
\* attempt, or an error, on exhaustion; once it has one, the stream never changes
\* again and no chunk is written to it.
C36_OneTerminalEvent ==
  /\ [](mode \in StreamModes =>
          /\ chan.state = "closed" =>
               /\ att # <<>>
               /\ att[Len(att)].st = "ok"
               /\ RelayedOf(Len(att)) = ChunksOf(Len(att))
               /\ \A k \in DOMAIN att : k < Len(att) => att[k].st = "failed"
          /\ chan.state = "errored" =>
               /\ currentModelIndex >= Len(models)
               /\ \A k \in DOMAIN att : att[k].st = "failed"
          /\ pc = "settled" <=> chan.state \in {"closed", "errored"})
  /\ [][(mode \in StreamModes /\ chan.state \in {"closed", "errored"}) =>
          (chan' = chan /\ emitted' = emitted /\ att' = att)]_vars

C36_Witness ==
  /\ mode \in StreamModes
  /\ chan.state = "closed"
  /\ Len(att) = 2
  /\ att[1].st = "failed"
  /\ att[1].sent = 1
  /\ att[2].st = "ok"
  /\ att[2].sent = 1
  /\ Len(emitted) = 2
  /\ reader.end = "done"

\* The texts next() has delivered so far, in the order the calls settled.
RECURSIVE TextsDelivered(_)
TextsDelivered(results) ==
  IF results = <<>> THEN <<>>
  ELSE IF Head(results).kind = "value"
    THEN <<Head(results).value>> \o TextsDelivered(Tail(results))
  ELSE TextsDelivered(Tail(results))

NonEmptyText(text) == text # ""

\* C32: the Anthropic bridge hands every non-empty text event to the consumer
\* exactly once and in emission order, whatever the interleaving of text
\* events and next() calls: the texts delivered so far followed by the queued
\* ones are exactly the non-empty texts emitted so far, a text arriving while
\* a next() is pending settles that call and is not queued, once a next() has
\* returned done every non-empty text has been delivered, and a next() called
\* after the end event with an empty queue returns done.
C32_BridgeDeliversInOrder ==
  /\ [](/\ TextsDelivered(bridge.results) \o bridge.textQueue
             = SelectSeq(bridge.texts, NonEmptyText)
        /\ bridge.waiting => bridge.textQueue = <<>>
        /\ (\E k \in DOMAIN bridge.results : bridge.results[k].kind = "done") =>
             TextsDelivered(bridge.results) = SelectSeq(bridge.texts, NonEmptyText))
  /\ [][(/\ bridge.streamEnded
         /\ bridge.textQueue = <<>>
         /\ Len(bridge'.results) > Len(bridge.results)) =>
          bridge'.results[Len(bridge'.results)] = NextDone]_vars

C32_Witness ==
  /\ bridge.texts = <<"a", "", "b">>
  /\ bridge.streamEnded
  /\ bridge.streamError = <<>>
  /\ bridge.results = <<NextValue("a"), NextValue("b"), NextDone, NextDone>>

\* C33: once the vendor stream has emitted "error", the bridge never answers
\* the consumer with a normal done in place of the error: a next() returns
\* done after an error only if an earlier next() was rejected with it.
C33_ErrorIsNotReplacedByDone ==
  bridge.streamError # <<>> =>
    \A k \in DOMAIN bridge.results :
      bridge.results[k].kind = "done" =>
        \E j \in 1..(k - 1) : bridge.results[j].kind = "rejected"

\* C31: a vendor error while an adapter iterates the vendor's response stream
\* makes the adapter's chunk sequence reject, so the orchestrator counts a
\* failed attempt: in the stream modes no attempt whose vendor stream failed is
\* taken as a success, for any of the three adapters.
C31_VendorErrorFailsTheAttempt ==
  \A k \in DOMAIN att :
    (mode \in StreamModes /\ att[k].error # <<>>) => att[k].st # "ok"

\* The fields of a request that carry the content of the generation.
ContentOf(r) ==
  [prompt |-> r.prompt, outputSchema |-> r.outputSchema, temperature |-> r.temperature,
   maxTokens |-> r.maxTokens, image |-> r.image, audio |-> r.audio]

\* C38: the request every attempt hands to its adapter is the caller's request
\* with the model field replaced by the candidate the attempt is on: prompt,
\* schema, temperature, maxTokens and attachments are the caller's, hence the
\* same for every retry and every candidate; and no step of the request changes
\* the caller's params or its candidate list.
C38_RequestPassedThrough ==
  /\ [](\A k \in DOMAIN att :
          /\ att[k].request.model = models[att[k].i + 1]
          /\ att[k].request.model = att[k].model
          /\ ContentOf(att[k].request) = params
          /\ att[k].request.retries = retries)
  /\ [][params' = params /\ models' = models /\ retries' = retries]_vars

C38_Witness ==
  /\ params = RichRequest
  /\ Len(models) = 2
  /\ Len(att) = 3
  /\ att[1].i = 0 /\ att[2].i = 0 /\ att[3].i = 1
  /\ att[2].st = "failed"
  /\ att[3].request.model = models[2]
  /\ att[3].request.image = <<"img1", "img2">>
  /\ pc = "settled"

====
